---- MODULE Spec2Model ----
(***************************************************************************)
(* Model of cuppa/build_with_location.py: the class `base`, the classes    *)
(* produced by location_dependency(), the class-wide location cache and    *)
(* the two class-wide artifact caches.                                     *)
(*                                                                         *)
(* Paths are records [none, parts, ext]: `parts` is the list of path       *)
(* components (a leading "/" marks an absolute path, a leading "~" the     *)
(* user's home), `ext` the extension of the last component.  Python's None *)
(* is the record with none = TRUE (for paths) or the string "None".        *)
(***************************************************************************)
EXTENDS Integers, Sequences, FiniteSets, TLC

VARIABLES opt,                \* command-line options, read through env.get_option
          limits,             \* how many create and build calls this run makes,
                              \* and whether other calls follow its builds
          roots,              \* env['branch_root'] and env['thirdparty']
          clsattr,            \* per class: _includes, _sys_includes, _source_path, _linktype
          cached_locations,   \* base._cached_locations
          prebuilt_objects,   \* base._prebuilt_objects
          prebuilt_libraries, \* base._prebuilt_libraries
          instances,          \* per class: the instances create() has returned
          locations,          \* every Location object constructed
          nodes,              \* every build node the host framework has created
          nbuilds,            \* build_library_from_source calls that went past the early return
          lastOp              \* the last operation: its arguments and its result

vars == <<opt, roots, limits, clsattr, cached_locations, prebuilt_objects,
          prebuilt_libraries, instances, locations, nodes, nbuilds, lastOp>>

-----------------------------------------------------------------------------
(* Bounds *)

MaxCreates == 2     \* create() calls that return an instance, per class
MaxBuilds  == 2     \* build_library_from_source calls that pass the early return

-----------------------------------------------------------------------------
(* Values *)

None == "None"

NonePath == [none |-> TRUE, parts |-> <<>>, ext |-> ""]

Path(parts, ext) == [none |-> FALSE, parts |-> parts, ext |-> ext]

Dir(parts) == Path(parts, "")

\* Python truth value of a string-or-None path
Truthy(p) == ~p.none /\ (p.parts # <<>> \/ p.ext # "")

\* Python truth value of a string-or-None
TruthyStr(s) == s # None /\ s # ""

NoneList == [none |-> TRUE, items |-> <<>>]

List(s) == [none |-> FALSE, items |-> s]

\* Python truth value of a list-or-None
TruthyList(l) == ~l.none /\ l.items # <<>>

-----------------------------------------------------------------------------
(* os.path *)

HomeDir == <<"/", "home">>

Cwd == Dir(<<"/", "work">>)

isabs(p) == Len(p.parts) > 0 /\ p.parts[1] = "/"

join(a, b) == IF isabs(b) THEN b ELSE Path(a.parts \o b.parts, b.ext)

expanduser(p) ==
    IF Len(p.parts) > 0 /\ p.parts[1] = "~"
    THEN Path(HomeDir \o Tail(p.parts), p.ext)
    ELSE p

RECURSIVE NormParts(_, _)
NormParts(done, rest) ==
    IF rest = <<>>
    THEN done
    ELSE LET h == Head(rest)
         IN  IF h = "."
             THEN NormParts(done, Tail(rest))
             ELSE IF h = ".." /\ done # <<>> /\ done[Len(done)] = "/"
             THEN NormParts(done, Tail(rest))
             ELSE IF h = ".." /\ done # <<>> /\ done[Len(done)] # ".."
             THEN NormParts(SubSeq(done, 1, Len(done) - 1), Tail(rest))
             ELSE NormParts(Append(done, h), Tail(rest))

normpath(p) ==
    LET n == NormParts(<<>>, p.parts)
    IN  IF n = <<>> THEN Dir(<<".">>) ELSE Path(n, p.ext)

abspath(p) == normpath(IF isabs(p) THEN p ELSE join(Cwd, p))

RECURSIVE CommonLen(_, _)
CommonLen(a, b) ==
    IF a = <<>> \/ b = <<>> \/ Head(a) # Head(b)
    THEN 0
    ELSE 1 + CommonLen(Tail(a), Tail(b))

RECURSIVE Ups(_)
Ups(n) == IF n = 0 THEN <<>> ELSE <<"..">> \o Ups(n - 1)

relpath(path, start) ==
    LET pl  == abspath(path).parts
        sl  == abspath(start).parts
        i   == CommonLen(pl, sl)
        rel == Ups(Len(sl) - i) \o SubSeq(pl, i + 1, Len(pl))
    IN  IF rel = <<>> THEN Dir(<<".">>) ELSE Path(rel, path.ext)

\* os.path.splitext( p )[0] + suffix
splitext_root_plus(p, suffix) == Path(p.parts, suffix)

-----------------------------------------------------------------------------
(* The dependency classes of this build: location_dependency( name, ... ) *)

Classes == {"Boost", "Asio"}

location_dependency ==
    [ Boost |-> [ _name |-> "boost",
                  _default_location    |-> NonePath,
                  _default_include     |-> NonePath,
                  _default_sys_include |-> NonePath,
                  _extra_sub_path      |-> NonePath,
                  _source_path         |-> NonePath,
                  _linktype            |-> None ],
      Asio  |-> [ _name |-> "asio",
                  _default_location    |-> Dir(<<"/", "opt", "asio">>),
                  _default_include     |-> Dir(<<"include">>),
                  _default_sys_include |-> NonePath,
                  _extra_sub_path      |-> Dir(<<"sub">>),
                  _source_path         |-> Dir(<<"src">>),
                  _linktype            |-> "shared" ] ]

Name(c) == location_dependency[c]._name

\* the class attributes right after the class statement and type(...)
ClassInit(c) ==
    [ _includes     |-> NoneList,
      _sys_includes |-> NoneList,
      _source_path  |-> location_dependency[c]._source_path,
      _linktype     |-> location_dependency[c]._linktype ]

-----------------------------------------------------------------------------
(* The build environments *)

Variants == {"dbg", "rel"}

Env(v) ==
    [ tool_variant_dir         |-> v,
      tool_variant_working_dir |-> Dir(<<v, "working">>),
      build_root               |-> Dir(<<"_build">>),
      final_dir                |-> Dir(<<"final">>),
      abs_final_dir            |-> Dir(<<"/", "work", "_build", v, "final">>),
      build_dir                |-> Dir(<<"_build">>),
      OBJSUFFIX                |-> ".o",
      SHOBJSUFFIX              |-> ".os" ]

-----------------------------------------------------------------------------
(* cuppa.location.Location *)

NoneLoc == [none |-> TRUE, serial |-> 0, location |-> NonePath, branch |-> None,
            extra_sub_path |-> NonePath]

Location(serial, location, branch, extra_sub_path) ==
    [none |-> FALSE, serial |-> serial, location |-> location, branch |-> branch,
     extra_sub_path |-> extra_sub_path]

local(loc) ==
    IF Truthy(loc.extra_sub_path)
    THEN join(loc.location, loc.extra_sub_path)
    ELSE loc.location

local_folder(loc) ==
    LET p == local(loc).parts IN Dir(<<p[Len(p)]>>)

-----------------------------------------------------------------------------
(* base.location_id *)

NoneId == [none |-> TRUE, location |-> NonePath, branch |-> None]

\* location_id with the class default taking precedence over the command line
location_id_default_first(c, o, r) ==
    LET branch == o.branch
        l1 == IF Truthy(location_dependency[c]._default_location)
              THEN location_dependency[c]._default_location ELSE o.location
        l2 == IF ~Truthy(l1) /\ TruthyStr(branch) THEN r.branch_root ELSE l1
        l3 == IF ~Truthy(l2) /\ TruthyStr(branch) THEN r.thirdparty ELSE l2
    IN  IF ~Truthy(l3)
        THEN NoneId
        ELSE [none |-> FALSE, location |-> expanduser(l3), branch |-> branch]

\* location_id without the fallback to env['thirdparty']
location_id_no_thirdparty(c, o, r) ==
    LET location == o.location
        branch   == o.branch
        l1 == IF ~Truthy(location) /\ Truthy(location_dependency[c]._default_location)
              THEN location_dependency[c]._default_location ELSE location
        l2 == IF ~Truthy(l1) /\ TruthyStr(branch) THEN r.branch_root ELSE l1
    IN  IF ~Truthy(l2)
        THEN NoneId
        ELSE [none |-> FALSE, location |-> expanduser(l2), branch |-> branch]

location_id(c, o, r) ==
    LET location == o.location
        branch   == o.branch
        l1 == IF ~Truthy(location) /\ Truthy(location_dependency[c]._default_location)
              THEN location_dependency[c]._default_location ELSE location
        l2 == IF ~Truthy(l1) /\ TruthyStr(branch) THEN r.branch_root ELSE l1
        l3 == IF ~Truthy(l2) /\ TruthyStr(branch) THEN r.thirdparty ELSE l2
    IN  IF ~Truthy(l3)
        THEN NoneId
        ELSE [none |-> FALSE, location |-> expanduser(l3), branch |-> branch]

\* the key of base._cached_locations: the tuple (location, branch)
IdKey(id) == <<id.location, id.branch>>

-----------------------------------------------------------------------------
(* base._get_location: `ok` is whether cuppa.location.Location(...) returns *)
(* (TRUE) or raises LocationException (FALSE)                              *)

\* a Location object distinct from every Location constructed before
NewLocation(made, location, branch, extra_sub_path) ==
    Location(1 + Cardinality({l \in made : /\ l.location = location
                                          /\ l.branch = branch
                                          /\ l.extra_sub_path = extra_sub_path}),
             location, branch, extra_sub_path)

\* _get_location that caches the failed resolution
_get_location_store_failure(c, o, r, cache, made, ok) ==
    LET id == location_id(c, o, r)
    IN  IF id.none
        THEN [result |-> NoneLoc, cache |-> cache, constructed |-> FALSE, made |-> made]
        ELSE IF IdKey(id) \notin DOMAIN cache
        THEN LET new == IF ok
                        THEN NewLocation(made, id.location, id.branch,
                                         location_dependency[c]._extra_sub_path)
                        ELSE NoneLoc
             IN  [result |-> new,
                  cache  |-> [k \in DOMAIN cache \cup {IdKey(id)} |->
                                 IF k = IdKey(id) THEN new ELSE cache[k]],
                  constructed |-> TRUE,
                  made |-> IF ok THEN made \cup {new} ELSE made]
        ELSE [result |-> cache[IdKey(id)], cache |-> cache,
              constructed |-> FALSE, made |-> made]

\* _get_location that does not look into the cache first
_get_location_nocache(c, o, r, cache, made, ok) ==
    LET id == location_id(c, o, r)
    IN  IF id.none
        THEN [result |-> NoneLoc, cache |-> cache, constructed |-> FALSE, made |-> made]
        ELSE IF ok
        THEN LET new == NewLocation(made, id.location, id.branch,
                                    location_dependency[c]._extra_sub_path)
             IN  [result |-> new,
                  cache  |-> [k \in DOMAIN cache \cup {IdKey(id)} |->
                                 IF k = IdKey(id) THEN new ELSE cache[k]],
                  constructed |-> TRUE, made |-> made \cup {new}]
        ELSE [result |-> NoneLoc, cache |-> cache, constructed |-> TRUE,
              made |-> made]

\* _get_location that gives the Location the extra-sub-path option when the
\* command line has one
_get_location_option_sub_path(c, o, r, cache, made, ok) ==
    LET id == location_id(c, o, r)
        extra_sub_path == IF Truthy(o.extra_sub_path) THEN o.extra_sub_path
                          ELSE location_dependency[c]._extra_sub_path
    IN  IF id.none
        THEN [result |-> NoneLoc, cache |-> cache, constructed |-> FALSE, made |-> made]
        ELSE IF IdKey(id) \notin DOMAIN cache
        THEN IF ok
             THEN LET new == NewLocation(made, id.location, id.branch, extra_sub_path)
                  IN  [result |-> new,
                       cache  |-> [k \in DOMAIN cache \cup {IdKey(id)} |->
                                      IF k = IdKey(id) THEN new ELSE cache[k]],
                       constructed |-> TRUE, made |-> made \cup {new}]
             ELSE [result |-> NoneLoc, cache |-> cache, constructed |-> TRUE,
                   made |-> made]
        ELSE [result |-> cache[IdKey(id)], cache |-> cache,
              constructed |-> FALSE, made |-> made]

_get_location(c, o, r, cache, made, ok) ==
    LET id == location_id(c, o, r)
    IN  IF id.none
        THEN [result |-> NoneLoc, cache |-> cache, constructed |-> FALSE, made |-> made]
        ELSE IF IdKey(id) \notin DOMAIN cache
        THEN IF ok
             THEN LET new == NewLocation(made, id.location, id.branch,
                                         location_dependency[c]._extra_sub_path)
                  IN  [result |-> new,
                       cache  |-> [k \in DOMAIN cache \cup {IdKey(id)} |->
                                      IF k = IdKey(id) THEN new ELSE cache[k]],
                       constructed |-> TRUE, made |-> made \cup {new}]
             ELSE [result |-> NoneLoc, cache |-> cache, constructed |-> TRUE,
                   made |-> made]
        ELSE [result |-> cache[IdKey(id)], cache |-> cache,
              constructed |-> FALSE, made |-> made]

-----------------------------------------------------------------------------
(* base.__init__ *)

RECURSIVE AbsAll(_, _)
AbsAll(includes, root) ==
    IF includes = <<>>
    THEN <<>>
    ELSE LET include == Head(includes)
         IN  (IF Truthy(include)
              THEN <<IF isabs(include) THEN include ELSE join(root, include)>>
              ELSE <<>>) \o AbsAll(Tail(includes), root)

__init__(c, serial, location, includes, sys_includes, source_path, linktype) ==
    LET incs == IF includes = <<>> /\ sys_includes = <<>>
                THEN <<local(location)>> ELSE includes
    IN  [ cls             |-> c,
          serial          |-> serial,
          _location       |-> location,
          _includes       |-> AbsAll(incs, local(location)),
          _sys_includes   |-> AbsAll(sys_includes, local(location)),
          has_source_path |-> Truthy(source_path),
          _source_path    |-> IF Truthy(source_path)
                              THEN (IF isabs(source_path) THEN source_path
                                    ELSE join(local(location), source_path))
                              ELSE NonePath,
          _linktype       |-> IF ~TruthyStr(linktype) THEN "static" ELSE linktype ]

\* self._source_path: the instance attribute, else the class attribute
SourcePathOf(inst, attrs) ==
    IF inst.has_source_path THEN inst._source_path ELSE attrs[inst.cls]._source_path

-----------------------------------------------------------------------------
(* base.create: the class attributes it leaves and the instance it returns *)

create_attrs(c, o, a) ==
    LET d    == location_dependency[c]
        inc1 == IF ~TruthyList(a._includes)
                THEN List(IF Truthy(o.include) THEN <<o.include>> ELSE <<>>)
                ELSE a._includes
        sys1 == IF ~TruthyList(a._sys_includes)
                THEN List(IF Truthy(o.sys_include) THEN <<o.sys_include>> ELSE <<>>)
                ELSE a._sys_includes
        inc2 == IF Truthy(d._default_include)
                THEN List(Append(inc1.items, d._default_include)) ELSE inc1
        sys2 == IF Truthy(d._default_sys_include)
                THEN List(Append(sys1.items, d._default_sys_include)) ELSE sys1
    IN  [ _includes     |-> inc2,
          _sys_includes |-> sys2,
          _source_path  |-> IF ~Truthy(a._source_path) THEN o.source_path
                            ELSE a._source_path,
          _linktype     |-> IF ~TruthyStr(a._linktype) THEN o.linktype
                            ELSE a._linktype ]

\* the return of create: None, or the instance for the resolved location
create_return(c, attrs, serial, g, a, attrs_if_none) ==
    IF g.result.none
    THEN [ none |-> TRUE, instance |-> <<>>, attrs |-> attrs_if_none, get |-> g ]
    ELSE [ none     |-> FALSE,
           instance |-> <<__init__(c, serial, g.result, a._includes.items,
                                   a._sys_includes.items, a._source_path,
                                   a._linktype)>>,
           attrs    |-> [attrs EXCEPT ![c] = a],
           get      |-> g ]

\* create that assembles the class configuration before it resolves the location
create_eager(c, o, r, attrs, cache, made, ok, serial) ==
    create_return(c, attrs, serial, _get_location(c, o, r, cache, made, ok),
                  create_attrs(c, o, attrs[c]),
                  [attrs EXCEPT ![c] = create_attrs(c, o, attrs[c])])

create(c, o, r, attrs, cache, made, ok, serial) ==
    create_return(c, attrs, serial, _get_location(c, o, r, cache, made, ok),
                  create_attrs(c, o, attrs[c]), attrs)

-----------------------------------------------------------------------------
(* base.__call__: env.AppendUnique( INCPATH = ... ), env.AppendUnique( SYSINCPATH = ... ) *)

InSeq(x, s) == \E i \in 1..Len(s) : s[i] = x

RECURSIVE AppendUnique(_, _)
AppendUnique(old, new) ==
    IF new = <<>>
    THEN old
    ELSE AppendUnique(IF InSeq(Head(new), old) THEN old ELSE Append(old, Head(new)),
                      Tail(new))

__call__(inst, env) ==
    [ INCPATH    |-> AppendUnique(env.INCPATH, inst._includes),
      SYSINCPATH |-> AppendUnique(env.SYSINCPATH, inst._sys_includes) ]

-----------------------------------------------------------------------------
(* The host framework: build nodes, the files on disk, RecursiveGlob *)

NoneNode == [ id |-> 0, builder |-> "None", target |-> NonePath, name |-> None,
              srcs |-> <<>>, deps |-> <<>>, final_dir |-> NonePath, by |-> <<>> ]

\* a build node distinct from every node created before; `by` is not part of
\* the node: it records for which dependency name, variant and cache key the
\* builder was invoked
NewNode(created, builder, target, name, srcs, deps, final_dir, by) ==
    [ id        |-> 1 + Cardinality({n \in created : /\ n.builder = builder
                                                     /\ n.target = target
                                                     /\ n.name = name}),
      builder   |-> builder,
      target    |-> target,
      name      |-> name,
      srcs      |-> srcs,
      deps      |-> deps,
      final_dir |-> final_dir,
      by        |-> by ]

SrcA  == Path(<<"/", "opt", "dep", "src", "a">>, ".cpp")
SrcB  == Path(<<"/", "opt", "dep", "src", "b">>, ".cpp")
SrcC  == Path(<<"/", "opt", "dep", "src", "c">>, ".cpp")
SrcA2 == Path(<<"/", "opt", "dep", "src", "a">>, ".c")

FileSystem ==
    << SrcA, SrcB, SrcC, SrcA2,
       Path(<<"/", "opt", "dep", "sub", "src", "a">>, ".cpp"),
       Path(<<"/", "opt", "dep", "sub", "src", "b">>, ".cpp"),
       Path(<<"/", "opt", "dep", "sub", "src", "c">>, ".cpp"),
       Path(<<"/", "opt", "asio", "sub", "src", "a">>, ".cpp") >>

IsPrefix(a, b) == Len(a) <= Len(b) /\ SubSeq(b, 1, Len(a)) = a

RecursiveGlob(ext, start) ==
    LET Under(f) == f.ext = ext /\ IsPrefix(abspath(start).parts, f.parts)
    IN  SelectSeq(FileSystem, Under)

-----------------------------------------------------------------------------
(* base.lazy_create_node *)

Put(f, k, v) == [x \in DOMAIN f \cup {k} |-> IF x = k THEN v ELSE f[x]]

\* lazy_create_node that starts a new variant of a dependency with the
\* entries of a variant the dependency already has
lazy_create_node_copy(name, variant_key, cached_nodes) ==
    LET c1 == IF name \notin DOMAIN cached_nodes
              THEN Put(cached_nodes, name, <<>>) ELSE cached_nodes
    IN  IF variant_key \notin DOMAIN c1[name]
        THEN Put(c1, name,
                 Put(c1[name], variant_key,
                     IF DOMAIN c1[name] = {} THEN <<>>
                     ELSE c1[name][CHOOSE w \in DOMAIN c1[name] : TRUE]))
        ELSE c1

lazy_create_node(name, variant_key, cached_nodes) ==
    LET c1 == IF name \notin DOMAIN cached_nodes
              THEN Put(cached_nodes, name, <<>>) ELSE cached_nodes
    IN  IF variant_key \notin DOMAIN c1[name]
        THEN Put(c1, name, Put(c1[name], variant_key, <<>>))
        ELSE c1

\* cached_nodes[name][variant_key][key], or None where there is no such entry
Cached(cached_nodes, name, variant_key, key) ==
    IF /\ name \in DOMAIN cached_nodes
       /\ variant_key \in DOMAIN cached_nodes[name]
       /\ key \in DOMAIN cached_nodes[name][variant_key]
    THEN cached_nodes[name][variant_key][key]
    ELSE NoneNode

-----------------------------------------------------------------------------
(* base.build_library_from_source *)

\* the relative object path of a source
rel_obj_path_of(source, local_dir, obj_suffix) ==
    splitext_root_plus(relpath(source, local_dir), obj_suffix)

\* one pass of the loop without the look-up in prebuilt_objects
build_object_nocheck(source, rel_obj_path, build_dir, obj_builder, acc, by) ==
    LET Add(new) == [ prebuilt |-> Put(acc.prebuilt, rel_obj_path, new),
                      objects  |-> Append(acc.objects, new),
                      created  |-> acc.created \cup {new} ]
    IN  Add(NewNode(acc.created, obj_builder, join(build_dir, rel_obj_path), None,
                    <<source>>, <<>>, NonePath, Append(by, rel_obj_path)))

\* one pass of the loop over the sources; acc holds prebuilt_objects, objects
\* and the nodes created so far
build_object(source, rel_obj_path, build_dir, obj_builder, acc, by) ==
    LET Add(new) == [ prebuilt |-> Put(acc.prebuilt, rel_obj_path, new),
                      objects  |-> Append(acc.objects, new),
                      created  |-> acc.created \cup {new} ]
    IN  IF rel_obj_path \notin DOMAIN acc.prebuilt
        THEN Add(NewNode(acc.created, obj_builder, join(build_dir, rel_obj_path),
                         None, <<source>>, <<>>, NonePath, Append(by, rel_obj_path)))
        ELSE [acc EXCEPT !.objects = Append(@, acc.prebuilt[rel_obj_path])]

\* the loop over the sources
RECURSIVE build_objects(_, _, _, _, _, _, _)
build_objects(sources, local_dir, build_dir, obj_suffix, obj_builder, acc, by) ==
    IF sources = <<>>
    THEN acc
    ELSE build_objects(Tail(sources), local_dir, build_dir, obj_suffix, obj_builder,
                       build_object(Head(sources),
                                    rel_obj_path_of(Head(sources), local_dir,
                                                    obj_suffix),
                                    build_dir, obj_builder, acc, by),
                       by)

\* install_library that registers the install step of a shared library and
\* enters the library builder's node into prebuilt_libraries
install_library_keep_library(env, linktype, lib, prebuilt, created, by) ==
    [ prebuilt |-> Put(prebuilt, linktype, lib),
      created  |-> IF linktype = "shared"
                   THEN created \cup
                        {lib, NewNode(created \cup {lib}, "Install",
                                      env.abs_final_dir, None, <<>>, <<lib>>,
                                      NonePath, Append(by, linktype))}
                   ELSE created \cup {lib} ]

\* the library node entered into prebuilt_libraries, with the install step of
\* a shared library
install_library(env, linktype, lib, prebuilt, created, by) ==
    LET Store(node) == [ prebuilt |-> Put(prebuilt, linktype, node),
                         created  |-> created \cup {lib, node} ]
    IN  IF linktype = "shared"
        THEN Store(NewNode(created \cup {lib}, "Install", env.abs_final_dir, None,
                           <<>>, <<lib>>, NonePath, Append(by, linktype)))
        ELSE Store(lib)

\* build_library without the look-up in prebuilt_libraries
build_library_rebuild(env, library_name, linktype, lib_builder, objects, final_dir, prebuilt, created, by) ==
    install_library(env, linktype,
                    NewNode(created, lib_builder, NonePath, library_name, <<>>,
                            objects, final_dir, Append(by, linktype)),
                    prebuilt, created, by)

\* build_library without the install step
build_library_noinstall(env, library_name, linktype, lib_builder, objects, final_dir, prebuilt, created, by) ==
    LET Put2(lib) == [ prebuilt |-> Put(prebuilt, linktype, lib),
                       created  |-> created \cup {lib} ]
    IN  IF linktype \notin DOMAIN prebuilt
        THEN Put2(NewNode(created, lib_builder, NonePath, library_name, <<>>,
                          objects, final_dir, Append(by, linktype)))
        ELSE [ prebuilt |-> prebuilt, created |-> created ]

\* the library node, and the install step of a shared library
build_library(env, library_name, linktype, lib_builder, objects, final_dir, prebuilt, created, by) ==
    IF linktype \notin DOMAIN prebuilt
    THEN install_library(env, linktype,
                         NewNode(created, lib_builder, NonePath, library_name, <<>>,
                                 objects, final_dir, Append(by, linktype)),
                         prebuilt, created, by)
    ELSE [ prebuilt |-> prebuilt, created |-> created ]

\* the link type of the instance, whatever the call's argument
effective_linktype_of_instance(inst, linktype) == inst._linktype

\* the effective link type of a call
effective_linktype(inst, linktype) ==
    IF ~TruthyStr(linktype) THEN inst._linktype ELSE linktype

\* the end of build_library_from_source: the library from the objects `o`
build_result(env, name, variant_key, lib_name, lt, lib_builder, final_dir, objs1, libs1, o) ==
    LET Result(l) ==
            [ none    |-> FALSE,
              result  |-> l.prebuilt[lt],
              objs    |-> [objs1 EXCEPT ![name][variant_key] = o.prebuilt],
              libs    |-> [libs1 EXCEPT ![name][variant_key] = l.prebuilt],
              created |-> l.created,
              objects |-> o.objects ]
    IN  Result(build_library(env, lib_name, lt, lib_builder, o.objects, final_dir,
                             libs1[name][variant_key], o.created,
                             <<name, variant_key>>))

\* build_library_from_source after its check of the source path and its
\* defaults for library_name and linktype
build_with(inst, source_path, env, sources, name, lib_name, lt, shared, objs1, libs1, created) ==
    LET variant_key == env.tool_variant_dir
        build_dir   == join(join(env.build_root, local_folder(inst._location)),
                            env.tool_variant_working_dir)
    IN  build_result(env, name, variant_key, lib_name, lt,
                     IF shared THEN "BuildSharedLib" ELSE "BuildStaticLib",
                     normpath(join(build_dir, env.final_dir)),
                     objs1, libs1,
                     build_objects(IF sources = <<>>
                                   THEN RecursiveGlob(".cpp", source_path)
                                   ELSE sources,
                                   local(inst._location), build_dir,
                                   IF shared THEN env.SHOBJSUFFIX ELSE env.OBJSUFFIX,
                                   IF shared THEN "SharedObject" ELSE "StaticObject",
                                   [ prebuilt |-> objs1[name][variant_key],
                                     objects  |-> <<>>,
                                     created  |-> created ],
                                   <<name, variant_key>>))

\* the defaults for library_name and linktype and the two per-variant caches
build_from_source(inst, attrs, env, sources, library_name, linktype, pobjs, plibs, created) ==
    build_with(inst, SourcePathOf(inst, attrs), env, sources, Name(inst.cls),
               IF ~TruthyStr(library_name) THEN Name(inst.cls) ELSE library_name,
               effective_linktype(inst, linktype),
               effective_linktype(inst, linktype) = "shared",
               lazy_create_node(Name(inst.cls), env.tool_variant_dir, pobjs),
               lazy_create_node(Name(inst.cls), env.tool_variant_dir, plibs),
               created)

\* build_library_from_source without its check of the source path
build_library_from_source_nocheck(inst, attrs, env, sources, library_name, linktype, pobjs, plibs, created) ==
    build_from_source(inst, attrs, env, sources, library_name, linktype,
                      pobjs, plibs, created)

build_library_from_source(inst, attrs, env, sources, library_name, linktype, pobjs, plibs, created) ==
    IF ~Truthy(SourcePathOf(inst, attrs)) /\ sources = <<>>
    THEN [ none |-> TRUE, result |-> NoneNode, objs |-> pobjs, libs |-> plibs,
           created |-> created, objects |-> <<>> ]
    ELSE build_from_source(inst, attrs, env, sources, library_name, linktype,
                           pobjs, plibs, created)

-----------------------------------------------------------------------------
(* LibraryMethod *)

\* the update_env callback given to LibraryMethod: it retargets the
\* environment to the other variant
UpdateEnvs == {"other_variant"}

update_env(u, env) ==
    IF u = "other_variant"
    THEN Env(CHOOSE w \in Variants : w # env.tool_variant_dir)
    ELSE env

LibraryMethod__init__(dependency, update, sources, library_name, linktype) ==
    [ _location_dependency |-> dependency,
      _update_env          |-> update,
      _sources             |-> sources,
      _library_name        |-> library_name,
      _linktype            |-> linktype ]

\* LibraryMethod.__call__ that builds before it applies the callback
LibraryMethod__call__build_first(self, attrs, env, pobjs, plibs, created) ==
    [ env   |-> update_env(self._update_env, env),
      build |-> build_library_from_source(self._location_dependency, attrs, env,
                                          self._sources, self._library_name,
                                          self._linktype, pobjs, plibs, created) ]

\* LibraryMethod.__call__: the environment after the callback, and the build
LibraryMethod__call__(self, attrs, env, pobjs, plibs, created) ==
    LET Delegate(env1) ==
            [ env   |-> env1,
              build |-> build_library_from_source(self._location_dependency, attrs,
                                                  env1, self._sources,
                                                  self._library_name,
                                                  self._linktype, pobjs, plibs,
                                                  created) ]
    IN  Delegate(update_env(self._update_env, env))

-----------------------------------------------------------------------------
(* Inputs *)

DepDir == Dir(<<"/", "opt", "dep">>)

\* the command line gives every dependency the same option values
Options(locs, branches, incs, sys_incs, sub_paths, src_paths, linktypes) ==
    [ location : locs, branch : branches, include : incs,
      sys_include : sys_incs, extra_sub_path : sub_paths,
      source_path : src_paths, linktype : linktypes ]

\* the values of the extra-sub-path option
ExtraSubPathOptions == {NonePath, Dir(<<"cli">>)}

Roots(branch_roots, thirdparties) ==
    [ branch_root : branch_roots, thirdparty : thirdparties ]

\* the arguments ( sources, library_name, linktype ) of build_library_from_source
BuildCalls ==
    { [sources |-> <<>>,            library_name |-> None,    linktype |-> None],
      [sources |-> <<SrcA>>,        library_name |-> None,    linktype |-> "static"],
      [sources |-> <<SrcA>>,        library_name |-> "other", linktype |-> "shared"],
      [sources |-> <<SrcA, SrcA2>>, library_name |-> None,    linktype |-> "static"],
      [sources |-> <<SrcA>>,        library_name |-> None,    linktype |-> None] }

\* the arguments ( sources, library_name, linktype ) LibraryMethod is given
MethodCalls ==
    { [sources |-> <<>>,     library_name |-> None, linktype |-> None],
      [sources |-> <<SrcA>>, library_name |-> None, linktype |-> "static"] }

-----------------------------------------------------------------------------
(* The state machine *)

InitState ==
    /\ clsattr = [c \in Classes |-> ClassInit(c)]
    /\ cached_locations = <<>>
    /\ prebuilt_objects = <<>>
    /\ prebuilt_libraries = <<>>
    /\ instances = [c \in Classes |-> <<>>]
    /\ locations = {}
    /\ nodes = {}
    /\ nbuilds = 0
    /\ lastOp = [op |-> "init"]

\* runs that vary the configuration options
Init ==
    /\ opt \in Options({NonePath, DepDir}, {None}, {NonePath, Dir(<<"inc">>)},
                       {NonePath, Dir(<<"sys">>)}, {NonePath}, {NonePath}, {None})
    /\ roots \in Roots({NonePath}, {NonePath})
    /\ limits = [creates |-> MaxCreates, builds |-> 1, mixed |-> TRUE]
    /\ InitState

\* runs that vary the location options and the environment's fallback roots
InitLocation ==
    /\ opt \in Options({NonePath, Dir(<<>>), Dir(<<"~", "dep">>), DepDir},
                       {None, "trunk"}, {NonePath}, {NonePath},
                       ExtraSubPathOptions, {NonePath}, {None})
    /\ roots \in Roots({NonePath, Dir(<<"/", "br">>)}, {NonePath, Dir(<<"/", "tp">>)})
    /\ limits = [creates |-> 1, builds |-> 1, mixed |-> TRUE]
    /\ InitState

\* runs that build libraries, after the location and include operations
InitBuild ==
    /\ opt \in Options({DepDir}, {None}, {NonePath}, {NonePath}, {NonePath},
                       {NonePath}, {None})
               \cup Options({DepDir}, {None}, {NonePath}, {NonePath}, {NonePath},
                            {Dir(<<"src">>)}, {"shared"})
    /\ roots \in Roots({NonePath}, {NonePath})
    /\ limits = [creates |-> 1, builds |-> MaxBuilds, mixed |-> FALSE]
    /\ InitState

LocationId(c) ==
    /\ limits.mixed \/ nbuilds = 0
    /\ lastOp' = [op |-> "location_id", cls |-> c, id |-> location_id(c, opt, roots)]
    /\ UNCHANGED <<opt, roots, limits, clsattr, cached_locations, prebuilt_objects,
                   prebuilt_libraries, instances, locations, nodes, nbuilds>>

GetLocation(c, ok) ==
    \E g \in {_get_location(c, opt, roots, cached_locations, locations, ok)} :
        /\ limits.mixed \/ nbuilds = 0
        /\ cached_locations' = g.cache
        /\ locations' = g.made
        /\ lastOp' = [op |-> "_get_location", cls |-> c, result |-> g.result,
                      constructed |-> g.constructed,
                      raised |-> g.constructed /\ ~ok]
        /\ UNCHANGED <<opt, roots, limits, clsattr, prebuilt_objects,
                       prebuilt_libraries, instances, nodes, nbuilds>>

Create(c, ok) ==
    \E r \in {create(c, opt, roots, clsattr, cached_locations, locations, ok,
                     Len(instances[c]) + 1)} :
        /\ Len(instances[c]) < limits.creates
        /\ cached_locations' = r.get.cache
        /\ locations' = r.get.made
        /\ clsattr' = r.attrs
        /\ instances' = [instances EXCEPT ![c] = @ \o r.instance]
        /\ lastOp' = [op |-> "create", cls |-> c, none |-> r.none,
                      instance |-> r.instance, constructed |-> r.get.constructed,
                      raised |-> r.get.constructed /\ ~ok]
        /\ UNCHANGED <<opt, roots, limits, prebuilt_objects, prebuilt_libraries,
                       nodes, nbuilds>>

\* instance( env, toolchain, variant ) on the instance create() returned last;
\* `dup`: the environment's INCPATH already holds the instance's includes
Call(c, dup) ==
    LET inst == instances[c][Len(instances[c])]
        env  == [ INCPATH    |-> IF dup THEN inst._includes ELSE <<>>,
                  SYSINCPATH |-> <<>> ]
    IN  /\ instances[c] # <<>>
        /\ limits.mixed \/ nbuilds = 0
        /\ lastOp' = [op |-> "__call__", cls |-> c, env |-> env,
                      after |-> __call__(inst, env)]
        /\ UNCHANGED <<opt, roots, limits, clsattr, cached_locations,
                       prebuilt_objects, prebuilt_libraries, instances, locations,
                       nodes, nbuilds>>

\* instance.build_library_from_source( env, ... ) on the instance create()
\* returned last (the instances of one class differ in their includes only)
Build(c, v, call) ==
    /\ instances[c] # <<>>
    /\ nbuilds < limits.builds
    /\ \E inst \in {instances[c][Len(instances[c])]} :
       \E b \in {build_library_from_source(inst, clsattr, Env(v), call.sources,
                                           call.library_name, call.linktype,
                                           prebuilt_objects, prebuilt_libraries,
                                           nodes)} :
        /\ prebuilt_objects' = b.objs
        /\ prebuilt_libraries' = b.libs
        /\ nodes' = b.created
        /\ nbuilds' = IF b.none THEN nbuilds ELSE nbuilds + 1
        /\ lastOp' = [op |-> "build", cls |-> c, variant |-> v, call |-> call,
                      none |-> b.none, result |-> b.result, objects |-> b.objects,
                      before |-> nodes,
                      first |-> ~(/\ Name(c) \in DOMAIN prebuilt_objects
                                  /\ v \in DOMAIN prebuilt_objects[Name(c)]),
                      prior |-> Cached(prebuilt_libraries, Name(c), v,
                                       effective_linktype(inst, call.linktype))]
        /\ UNCHANGED <<opt, roots, limits, clsattr, cached_locations, instances,
                       locations>>

\* LibraryMethod( instance, update_env, ... )( env ) on the instance create()
\* returned last
InvokeLibraryMethod(c, v, u, call) ==
    /\ instances[c] # <<>>
    /\ nbuilds < limits.builds
    /\ \E self \in {LibraryMethod__init__(instances[c][Len(instances[c])], u,
                                          call.sources, call.library_name,
                                          call.linktype)} :
       \E r \in {LibraryMethod__call__(self, clsattr, Env(v), prebuilt_objects,
                                       prebuilt_libraries, nodes)} :
        /\ prebuilt_objects' = r.build.objs
        /\ prebuilt_libraries' = r.build.libs
        /\ nodes' = r.build.created
        /\ nbuilds' = IF r.build.none THEN nbuilds ELSE nbuilds + 1
        /\ lastOp' = [op |-> "library_method", cls |-> c, variant |-> v,
                      method |-> self, env |-> r.env, none |-> r.build.none,
                      result |-> r.build.result, objects |-> r.build.objects,
                      before |-> nodes]
        /\ UNCHANGED <<opt, roots, limits, clsattr, cached_locations, instances,
                       locations>>

Next ==
    \/ \E c \in Classes : LocationId(c)
    \/ \E c \in Classes, ok \in BOOLEAN : GetLocation(c, ok)
    \/ \E c \in Classes, ok \in BOOLEAN : Create(c, ok)
    \/ \E c \in Classes, dup \in BOOLEAN : Call(c, dup)
    \/ \E c \in Classes, v \in Variants, call \in BuildCalls : Build(c, v, call)
    \/ \E c \in Classes, v \in Variants, u \in UpdateEnvs, call \in MethodCalls :
          InvokeLibraryMethod(c, v, u, call)

Spec == Init /\ [][Next]_vars

SpecLocation == InitLocation /\ [][Next]_vars

SpecBuild == InitBuild /\ [][Next]_vars

-----------------------------------------------------------------------------
(* What the properties below speak about *)

ObjectBuilders == {"StaticObject", "SharedObject"}

LibraryBuilders == {"BuildStaticLib", "BuildSharedLib"}

Objects == {n \in nodes : n.builder \in ObjectBuilders}

Libraries == {n \in nodes : n.builder \in LibraryBuilders}

Installs == {n \in nodes : n.builder = "Install"}

\* the last operation was a build_library_from_source call that returned a node
Built == lastOp.op = "build" /\ ~lastOp.none

\* the instance, the sources, the link type and the object suffix of that call
BuildInst == instances[lastOp.cls][Len(instances[lastOp.cls])]

BuildSources ==
    IF lastOp.call.sources = <<>>
    THEN RecursiveGlob(".cpp", SourcePathOf(BuildInst, clsattr))
    ELSE lastOp.call.sources

BuildLinktype ==
    IF lastOp.call.linktype \in {None, ""} THEN BuildInst._linktype
    ELSE lastOp.call.linktype

BuildSuffix ==
    IF BuildLinktype = "shared" THEN Env(lastOp.variant).SHOBJSUFFIX
    ELSE Env(lastOp.variant).OBJSUFFIX

RelObjPath(source) ==
    splitext_root_plus(relpath(source, local(BuildInst._location)), BuildSuffix)

\* the nodes the last call created
NewNodes == nodes \ lastOp.before

-----------------------------------------------------------------------------
(* C1 *)

\* C1 as stated: at most one object node is ever created per dependency name,
\* variant and source file, whatever link types the calls use.
C1_OneObjectPerSource ==
    \A n1, n2 \in Objects :
        (n1.by[1] = n2.by[1] /\ n1.by[2] = n2.by[2] /\ n1.srcs = n2.srcs) => n1 = n2

\* C1 as amended: at most one object node is ever created per dependency name,
\* variant and relative object path (the source's path relative to the local
\* root, its extension replaced by the object suffix of the call's link type),
\* and a call whose source has a relative object path that an earlier call
\* built gets the node of that earlier call, with no new object node for it.
C1_OneObjectPerRelObjPath ==
    /\ \A n1, n2 \in Objects : n1.by = n2.by => n1 = n2
    /\ Built =>
         /\ Len(lastOp.objects) = Len(BuildSources)
         /\ \A k \in 1..Len(BuildSources) :
              LET key == <<Name(lastOp.cls), lastOp.variant,
                           RelObjPath(BuildSources[k])>>
              IN  /\ lastOp.objects[k] \in Objects
                  /\ lastOp.objects[k].by = key
                  /\ (\E n \in lastOp.before \cap Objects : n.by = key)
                        => lastOp.objects[k] \in lastOp.before

\* a call reused an object node that an earlier call had created
C1_Witness ==
    /\ Built
    /\ \E k \in 1..Len(lastOp.objects) : lastOp.objects[k] \in lastOp.before

-----------------------------------------------------------------------------
(* C2 *)

\* C2: the library builder is invoked at most once per dependency name, variant
\* and link type, and a call for a triple that already has a library returns
\* that library node and invokes no library builder.
C2_OneLibraryPerLinktype ==
    /\ \A n1, n2 \in Libraries : n1.by = n2.by => n1 = n2
    /\ (Built /\ lastOp.prior.id # 0) =>
         /\ lastOp.result = lastOp.prior
         /\ NewNodes \cap (Libraries \cup Installs) = {}

\* a call was served from the library cache
C2_Witness == Built /\ lastOp.prior.id # 0 /\ lastOp.result.id # 0

-----------------------------------------------------------------------------
(* C3 *)

\* C3: every instance that create returns for a class has the includes, the
\* sys-includes, the source path and the link type of the first one.
C3_CreateIdempotent ==
    \A c \in Classes : \A i \in 1..Len(instances[c]) :
        LET first == instances[c][1]
            later == instances[c][i]
        IN  /\ later._includes = first._includes
            /\ later._sys_includes = first._sys_includes
            /\ later.has_source_path = first.has_source_path
            /\ later._source_path = first._source_path
            /\ later._linktype = first._linktype

-----------------------------------------------------------------------------
(* C4 *)

\* the location the precedence rule picks: the command line's, else the class
\* default, else with a branch the environment's fallback root
ChosenLocation(c) ==
    IF Truthy(opt.location) THEN opt.location
    ELSE IF Truthy(location_dependency[c]._default_location)
    THEN location_dependency[c]._default_location
    ELSE IF opt.branch \notin {None, ""}
    THEN (IF Truthy(roots.branch_root) THEN roots.branch_root ELSE roots.thirdparty)
    ELSE NonePath

\* C4 as stated: location_id returns None when the rule picks nothing, and
\* otherwise the pair (picked location, branch option).
C4_ChosenLocation ==
    lastOp.op = "location_id" =>
        LET chosen == ChosenLocation(lastOp.cls)
        IN  IF Truthy(chosen)
            THEN lastOp.id = [none |-> FALSE, location |-> chosen,
                              branch |-> opt.branch]
            ELSE lastOp.id.none

\* C4 as amended: location_id returns None when the rule picks nothing, and
\* otherwise the pair (picked location with a leading ~ replaced by the user's
\* home directory, branch option).
C4_ExpandedLocation ==
    lastOp.op = "location_id" =>
        LET chosen == ChosenLocation(lastOp.cls)
        IN  IF Truthy(chosen)
            THEN lastOp.id = [none |-> FALSE, location |-> expanduser(chosen),
                              branch |-> opt.branch]
            ELSE lastOp.id.none

\* the command line's location overrode a class default and was expanded
C4_Witness ==
    /\ lastOp.op = "location_id"
    /\ lastOp.cls = "Asio"
    /\ opt.location = Dir(<<"~", "dep">>)
    /\ lastOp.id.location = Dir(<<"/", "home", "dep">>)

-----------------------------------------------------------------------------
(* C5 *)

\* C5: a build_library_from_source call with no sources on an instance with no
\* source path returns None, creates no node and leaves both artifact caches
\* as they were, without new (empty) entries.
C5_NoSourcesNoEffect ==
    [][ ( /\ lastOp'.op = "build"
          /\ lastOp'.call.sources = <<>>
          /\ ~Truthy(SourcePathOf(instances[lastOp'.cls][Len(instances[lastOp'.cls])],
                                  clsattr)) )
        => ( /\ lastOp'.none
             /\ lastOp'.result = NoneNode
             /\ nodes' = nodes
             /\ prebuilt_objects' = prebuilt_objects
             /\ prebuilt_libraries' = prebuilt_libraries ) ]_vars

\* such a call returned None and the caches hold no entry for the dependency
C5_Witness ==
    /\ lastOp.op = "build"
    /\ lastOp.none
    /\ lastOp.call.sources = <<>>
    /\ Name(lastOp.cls) \notin DOMAIN prebuilt_objects
    /\ Name(lastOp.cls) \notin DOMAIN prebuilt_libraries

-----------------------------------------------------------------------------
(* C6 *)

\* C6: when the construction of the Location raises, _get_location returns
\* None and the location cache is unchanged, with no entry for the
\* location_id; a call for a location_id without an entry constructs a Location.
C6_FailedResolutionNotCached ==
    [][ lastOp'.op = "_get_location" =>
          LET id == location_id(lastOp'.cls, opt, roots)
          IN  /\ lastOp'.raised =>
                    /\ lastOp'.result.none
                    /\ cached_locations' = cached_locations
                    /\ IdKey(id) \notin DOMAIN cached_locations'
              /\ (~id.none /\ IdKey(id) \notin DOMAIN cached_locations)
                    => lastOp'.constructed ]_vars

\* a resolution failed
C6_Witness ==
    /\ lastOp.op = "_get_location"
    /\ lastOp.raised
    /\ lastOp.result.none
    /\ IdKey(location_id(lastOp.cls, opt, roots)) \notin DOMAIN cached_locations

-----------------------------------------------------------------------------
(* C7 *)

\* C7: an entry of the location cache is never removed or replaced, and a
\* _get_location call whose location_id has an entry returns that Location
\* and constructs none.
C7_CachedLocationKept ==
    [][ /\ \A k \in DOMAIN cached_locations :
              /\ k \in DOMAIN cached_locations'
              /\ cached_locations'[k] = cached_locations[k]
        /\ lastOp'.op = "_get_location" =>
              LET id == location_id(lastOp'.cls, opt, roots)
              IN  (~id.none /\ IdKey(id) \in DOMAIN cached_locations) =>
                      /\ lastOp'.result = cached_locations[IdKey(id)]
                      /\ ~lastOp'.constructed
                      /\ locations' = locations ]_vars

\* a call was served from the location cache
C7_Witness ==
    /\ lastOp.op = "_get_location"
    /\ ~lastOp.constructed
    /\ ~lastOp.result.none
    /\ lastOp.result \in locations

-----------------------------------------------------------------------------
(* C8 *)

\* C8: create returns None exactly when location_id yields None or the
\* construction of the Location raises; then the class configuration is
\* unchanged; otherwise it returns an instance that did not exist before,
\* holding the resolved Location.
C8_CreateNoneIffNoLocation ==
    [][ lastOp'.op = "create" =>
          LET c  == lastOp'.cls
              id == location_id(c, opt, roots)
              n  == Len(instances[c])
          IN  /\ lastOp'.none <=> (id.none \/ lastOp'.raised)
              /\ lastOp'.none => (clsattr' = clsattr /\ instances' = instances)
              /\ ~lastOp'.none =>
                    /\ Len(instances'[c]) = n + 1
                    /\ SubSeq(instances'[c], 1, n) = instances[c]
                    /\ lastOp'.instance = <<instances'[c][n + 1]>>
                    /\ \A i \in 1..n : instances'[c][n + 1] # instances[c][i]
                    /\ instances'[c][n + 1]._location = cached_locations'[IdKey(id)]
        ]_vars

\* create returned None because the resolution failed, on a command line that
\* gives an include option
C8_Witness ==
    /\ lastOp.op = "create"
    /\ lastOp.none
    /\ lastOp.raised
    /\ Truthy(opt.include)

-----------------------------------------------------------------------------
(* C9 *)

\* C9: the class configuration (includes, sys-includes, source path, link
\* type) changes only in the first create of the class that returns an instance.
C9_ConfiguredOnce ==
    [][ \A c \in Classes :
          clsattr'[c] # clsattr[c] =>
              /\ lastOp'.op = "create"
              /\ lastOp'.cls = c
              /\ ~lastOp'.none
              /\ instances[c] = <<>> ]_vars

-----------------------------------------------------------------------------
(* C10 *)

\* the sources of the last call have pairwise distinct relative object paths
DistinctRelObjPaths ==
    \A i, j \in 1..Len(BuildSources) :
        i # j => RelObjPath(BuildSources[i]) # RelObjPath(BuildSources[j])

\* C10: the first call for a dependency and variant, with effective link type
\* shared and n sources with distinct relative object paths, creates n object
\* nodes, all by SharedObject with SHOBJSUFFIX, one BuildSharedLib node and one
\* Install node to abs_final_dir, and nothing else.
C10_FirstSharedBuild ==
    (Built /\ lastOp.first /\ BuildLinktype = "shared" /\ DistinctRelObjPaths) =>
        LET n == Len(BuildSources)
        IN  /\ Cardinality({x \in NewNodes : x.builder = "SharedObject"}) = n
            /\ \A x \in NewNodes :
                  x.builder = "SharedObject" =>
                      x.target.ext = Env(lastOp.variant).SHOBJSUFFIX
            /\ Cardinality({x \in NewNodes : x.builder = "BuildSharedLib"}) = 1
            /\ Cardinality({x \in NewNodes :
                               /\ x.builder = "Install"
                               /\ x.target = Env(lastOp.variant).abs_final_dir}) = 1
            /\ Cardinality(NewNodes) = n + 2

\* the first call for "boost" with --boost-linktype=shared found three sources
C10_Witness ==
    /\ Built
    /\ lastOp.first
    /\ lastOp.cls = "Boost"
    /\ opt.linktype = "shared"
    /\ lastOp.call.linktype = None
    /\ Len(BuildSources) = 3
    /\ DistinctRelObjPaths

-----------------------------------------------------------------------------
(* C11 *)

\* C11: an invocation of a LibraryMethod leaves the environment as one
\* application of update_env leaves it, and its effects and its result are those
\* of build_library_from_source on the updated environment with the sources,
\* the library name and the link type stored at construction, also when the
\* build returns None or is served from the caches.
C11_UpdateThenBuild ==
    [][ lastOp'.op = "library_method" =>
          LET self == lastOp'.method
              env1 == update_env(self._update_env, Env(lastOp'.variant))
              b    == build_library_from_source(
                          self._location_dependency, clsattr, env1, self._sources,
                          self._library_name, self._linktype, prebuilt_objects,
                          prebuilt_libraries, nodes)
          IN  /\ lastOp'.env = env1
              /\ lastOp'.env # Env(lastOp'.variant)
              /\ lastOp'.env # update_env(self._update_env, env1)
              /\ lastOp'.none = b.none
              /\ lastOp'.result = b.result
              /\ lastOp'.objects = b.objects
              /\ prebuilt_objects' = b.objs
              /\ prebuilt_libraries' = b.libs
              /\ nodes' = b.created ]_vars

\* an invocation retargeted the environment and was served from the caches of
\* the variant the callback chose
C11_Witness ==
    /\ lastOp.op = "library_method"
    /\ lastOp.method._update_env = "other_variant"
    /\ ~lastOp.none
    /\ lastOp.result \in lastOp.before
    /\ lastOp.result.by[2] = lastOp.env.tool_variant_dir

-----------------------------------------------------------------------------
(* C12 *)

\* the last location_id call returned the location of env['thirdparty'] (no
\* other candidate location of these runs equals it)
FromThirdparty ==
    /\ lastOp.op = "location_id"
    /\ ~lastOp.id.none
    /\ Truthy(roots.thirdparty)
    /\ lastOp.id.location = expanduser(roots.thirdparty)

\* C12 as stated: no call to location_id returns a location taken from
\* env['thirdparty'].
C12_ThirdpartyNeverUsed == ~FromThirdparty

\* C12 as amended: location_id returns the location of env['thirdparty']
\* exactly when the command line gives no location, the class has no default
\* location, a branch is given, env['branch_root'] is empty and
\* env['thirdparty'] is not.
C12_ThirdpartyFallback ==
    lastOp.op = "location_id" =>
        ( FromThirdparty <=>
            /\ ~Truthy(opt.location)
            /\ ~Truthy(location_dependency[lastOp.cls]._default_location)
            /\ opt.branch \notin {None, ""}
            /\ ~Truthy(roots.branch_root)
            /\ Truthy(roots.thirdparty) )

\* a call with a branch and no branch root fell back to env['thirdparty']
C12_Witness ==
    /\ FromThirdparty
    /\ lastOp.cls = "Boost"
    /\ opt.branch = "trunk"
    /\ ~Truthy(roots.branch_root)
    /\ lastOp.id.branch = "trunk"

-----------------------------------------------------------------------------
(* C13 *)

\* the key of the library cache the last call used
BuildLibraryKey == <<Name(lastOp.cls), lastOp.variant, BuildLinktype>>

\* C13 as stated: a node returned by build_library_from_source is the node the
\* library builder produced for the dependency, variant and link type.
C13_ReturnsLibraryBuilderNode ==
    Built => /\ lastOp.result.builder \in LibraryBuilders
             /\ lastOp.result.by = BuildLibraryKey

\* C13 as amended: with another link type than shared the node returned is the
\* BuildStaticLib node of the dependency, variant and link type; with link
\* type shared it is the Install node to abs_final_dir whose one source is the
\* BuildSharedLib node of the dependency, variant and link type. Either is the
\* entry of the library cache.
C13_ReturnsCachedLibraryNode ==
    Built =>
        /\ lastOp.result = Cached(prebuilt_libraries, Name(lastOp.cls),
                                  lastOp.variant, BuildLinktype)
        /\ lastOp.result \in nodes
        /\ IF BuildLinktype = "shared"
           THEN /\ lastOp.result.builder = "Install"
                /\ lastOp.result.target = Env(lastOp.variant).abs_final_dir
                /\ Len(lastOp.result.deps) = 1
                /\ lastOp.result.deps[1].builder = "BuildSharedLib"
                /\ lastOp.result.deps[1].by = BuildLibraryKey
                /\ lastOp.result.deps[1] \in nodes
           ELSE /\ lastOp.result.builder = "BuildStaticLib"
                /\ lastOp.result.by = BuildLibraryKey

\* a shared call was served from the library cache and returned the Install
\* node
C13_Witness ==
    /\ Built
    /\ BuildLinktype = "shared"
    /\ lastOp.result \in lastOp.before
    /\ lastOp.result.builder = "Install"

-----------------------------------------------------------------------------
(* C14 *)

\* C14: an instance of a class whose factory gave no link type, created on a
\* command line without the linktype option, has link type static; a call is
\* served under its linktype argument when given and else under the
\* instance's link type; and when that is not shared the call creates only
\* StaticObject nodes with OBJSUFFIX and BuildStaticLib nodes, and no Install.
C14_EffectiveLinktype ==
    /\ \A c \in Classes : \A i \in 1..Len(instances[c]) :
          ( /\ location_dependency[c]._linktype \in {None, ""}
            /\ opt.linktype \in {None, ""} )
              => instances[c][i]._linktype = "static"
    /\ Built =>
          LET lt == IF lastOp.call.linktype \in {None, ""}
                    THEN BuildInst._linktype
                    ELSE lastOp.call.linktype
          IN  /\ lastOp.result.by = <<Name(lastOp.cls), lastOp.variant, lt>>
              /\ lt # "shared" =>
                    /\ \A x \in NewNodes :
                          /\ x.builder \in {"StaticObject", "BuildStaticLib"}
                          /\ x.builder = "StaticObject" =>
                                x.target.ext = Env(lastOp.variant).OBJSUFFIX
                    /\ \A k \in 1..Len(lastOp.objects) :
                          lastOp.objects[k].builder = "StaticObject"
                    /\ lastOp.result.builder = "BuildStaticLib"

\* a call without a linktype argument, on an instance that got no link type
\* from the factory or the command line, built a static library
C14_Witness ==
    /\ Built
    /\ lastOp.call.linktype = None
    /\ location_dependency[lastOp.cls]._linktype = None
    /\ opt.linktype = None
    /\ BuildInst._linktype = "static"
    /\ \E x \in NewNodes : x.builder = "BuildStaticLib"
    /\ \E x \in NewNodes : x.builder = "StaticObject"

-----------------------------------------------------------------------------
(* C15 *)

\* every entry of the cache `old` outside (d, v) is in `new` unchanged, and
\* `new` has no entry outside (d, v) that `old` has not
OnlyUnder(old, new, d, v) ==
    /\ \A d2 \in DOMAIN old :
          /\ d2 \in DOMAIN new
          /\ \A v2 \in DOMAIN old[d2] :
                /\ v2 \in DOMAIN new[d2]
                /\ <<d2, v2>> # <<d, v>> => new[d2][v2] = old[d2][v2]
                /\ \A k \in DOMAIN old[d2][v2] :
                      /\ k \in DOMAIN new[d2][v2]
                      /\ new[d2][v2][k] = old[d2][v2][k]
    /\ \A d2 \in DOMAIN new :
          /\ d2 # d => d2 \in DOMAIN old
          /\ \A v2 \in DOMAIN new[d2] :
                <<d2, v2>> # <<d, v>> => (d2 \in DOMAIN old /\ v2 \in DOMAIN old[d2])

\* the node was created under the dependency name d and the variant v
CreatedUnder(n, d, v) == n.by[1] = d /\ n.by[2] = v

\* C15: a build_library_from_source call for dependency d under variant v
\* adds cache entries only under (d, v) and changes no entry of another
\* (dependency, variant); the node it returns, the object nodes it collects
\* and the nodes its library builder and install step are given were all
\* created under (d, v).
C15_CachesPartitioned ==
    [][ lastOp'.op \in {"build", "library_method"} =>
          LET d == Name(lastOp'.cls)
              v == IF lastOp'.op = "build" THEN lastOp'.variant
                   ELSE lastOp'.env.tool_variant_dir
          IN  /\ OnlyUnder(prebuilt_objects, prebuilt_objects', d, v)
              /\ OnlyUnder(prebuilt_libraries, prebuilt_libraries', d, v)
              /\ ~lastOp'.none =>
                    /\ CreatedUnder(lastOp'.result, d, v)
                    /\ \A k \in 1..Len(lastOp'.objects) :
                          CreatedUnder(lastOp'.objects[k], d, v)
              /\ \A x \in nodes' \ nodes :
                    /\ CreatedUnder(x, d, v)
                    /\ \A k \in 1..Len(x.deps) : CreatedUnder(x.deps[k], d, v) ]_vars

\* a call built a library for a dependency under one variant while the caches
\* held nodes of this dependency under the other variant
C15_Witness ==
    /\ Built
    /\ lastOp.result \notin lastOp.before
    /\ \E n \in lastOp.before :
          n.by[1] = Name(lastOp.cls) /\ n.by[2] # lastOp.variant

-----------------------------------------------------------------------------
(* C16 *)

\* the node the library builder produced for the node a call returned
LibraryOf(n) == IF n.builder = "Install" THEN n.deps[1] ELSE n

\* C16: the library a call returns was built under the library name of the
\* call (the dependency name when the call gives none) and from the object
\* nodes of the sources of the call.
C16_LibraryOfThisCall ==
    Built =>
        /\ LibraryOf(lastOp.result).deps = lastOp.objects
        /\ LibraryOf(lastOp.result).name =
              IF lastOp.call.library_name \in {None, ""}
              THEN Name(lastOp.cls) ELSE lastOp.call.library_name

-----------------------------------------------------------------------------
(* C17 *)

\* C17: the Location that _get_location returns for a class, and that an
\* instance of the class holds, was constructed with the extra_sub_path of
\* the class.
C17_OwnExtraSubPath ==
    /\ \A c \in Classes : \A i \in 1..Len(instances[c]) :
          instances[c][i]._location.extra_sub_path
              = location_dependency[c]._extra_sub_path
    /\ (lastOp.op = "_get_location" /\ ~lastOp.result.none) =>
          lastOp.result.extra_sub_path
              = location_dependency[lastOp.cls]._extra_sub_path

-----------------------------------------------------------------------------
(* C18 *)

\* C18: the object node a call collects for the k-th of its sources was
\* created from that source file, so that two source files of a call never
\* share an object node.
C18_ObjectOfItsSource ==
    Built =>
        /\ Len(lastOp.objects) = Len(BuildSources)
        /\ \A k \in 1..Len(BuildSources) :
              lastOp.objects[k].srcs = <<BuildSources[k]>>
        /\ \A i, j \in 1..Len(BuildSources) :
              BuildSources[i] # BuildSources[j]
                  => lastOp.objects[i] # lastOp.objects[j]

-----------------------------------------------------------------------------
(* C19 *)

====
